---- MODULE Spec2Model ----
(***************************************************************************)
(* Simple Tasks API: the Elysia handlers of src/src/index.ts (the          *)
(* auto-register variant: /login creates unknown users, 7d tokens, HTTP    *)
(* status codes) and of src/unnamed/part_000 (the variant with a separate  *)
(* /register, 1h tokens, every answer a 200).  The Prisma store, bcrypt    *)
(* and jsonwebtoken are modelled by the interface the handlers call.       *)
(*                                                                         *)
(* A handler is split into steps at the awaits that touch the store or the *)
(* disk: requests in flight interleave between those steps.                *)
(***************************************************************************)
EXTENDS Integers, Sequences, FiniteSets, TLC

VARIABLES
    variant,     \* "index" (src/src/index.ts) or "part000" (src/unnamed/part_000)
    users,       \* rows of prisma.user: [id, email, password, image]
    nextUserId,  \* autoincrement of user.id
    tasks,       \* rows of prisma.task: [id, userId, title, date, isChecked]
    nextTaskId,  \* autoincrement of task.id
    now,         \* the clock jwt reads: Math.floor(Date.now() / 1000), seconds
    issued,      \* tokens handed out by /login so far (what clients hold)
    flight,      \* per request slot: the handler's position and locals
    files,       \* files written under uploads/
    out,         \* the response sent by the step just taken ("none": no response yet)
    applied      \* history: the task.update writes of the race under study, in
                 \* the order the store applied them (no handler reads it)

vars == <<variant, users, nextUserId, tasks, nextTaskId, now, issued, flight, files, out,
          applied>>

(***************************************************************************)
(* Bounds of the model.                                                    *)
(***************************************************************************)
MaxTasks == 2
MaxUsers == 2
MaxInflight == 2
MaxSkew == 1

Reqs == 1..MaxInflight

(***************************************************************************)
(* JavaScript values.  An optional value is <<>> (undefined) or <<v>>.     *)
(* A title or search string is a sequence of characters, so that the       *)
(* case-insensitive match works on its characters; emails, passwords and   *)
(* dates are compared whole and are plain strings.                         *)
(***************************************************************************)
None == <<>>
Some(v) == <<v>>
IsSome(o) == Len(o) = 1
Val(o) == o[1]

ToLowerChar(c) ==
    CASE c = "A" -> "a"
      [] c = "B" -> "b"
      [] OTHER -> c

ToLower(s) == [i \in 1..Len(s) |-> ToLowerChar(s[i])]

Contains(s, sub) ==
    \E i \in 1..(Len(s) - Len(sub) + 1) : SubSeq(s, i, i + Len(sub) - 1) = sub

\* Prisma: { contains: search, mode: 'insensitive' }
ContainsInsensitive(title, search) == Contains(ToLower(title), ToLower(search))

(***************************************************************************)
(* bcrypt: a digest embeds its salt; compare recomputes with that salt.    *)
(***************************************************************************)
Salts == {"s1", "s2"}
bcryptHash(password, salt) == [salt |-> salt, of |-> password]
bcryptCompare(password, digest) == digest.of = password

(***************************************************************************)
(* jsonwebtoken.  A token is its payload {id, email, iat, exp} and the key *)
(* it was signed with: "good" is JWT_SECRET, "bad" any other key or a      *)
(* tampered payload, "garbage" a string that is no JWT, "empty" the empty  *)
(* string.                                                                 *)
(***************************************************************************)
ExpiresIn7d == 604800
ExpiresIn1h == 3600
ExpiresIn == IF variant = "index" THEN ExpiresIn7d ELSE ExpiresIn1h

jwtSign(id, email, t, ttl) ==
    [sig |-> "good", id |-> id, email |-> email, iat |-> t, exp |-> t + ttl]

jwtVerifiesUntilExp(tok, t) == tok.sig = "good" /\ t <= tok.exp

\* jwt.verify(token, JWT_SECRET) at clock t: throws unless the signature is
\* JWT_SECRET's and clockTimestamp < exp (clockTimestamp >= exp is expired).
jwtVerifies(tok, t) == tok.sig = "good" /\ t < tok.exp

getUserFromToken(token, t) ==
    IF ~IsSome(token) \/ Val(token).sig = "empty" THEN None
    ELSE IF jwtVerifies(Val(token), t)
         THEN Some([id |-> Val(token).id, email |-> Val(token).email])
         ELSE None

(***************************************************************************)
(* The Authorization header.  present = FALSE: no header.  Otherwise the   *)
(* header is scheme, then one space and a token for each entry of rest     *)
(* (an "empty" token is what two adjacent spaces give).                    *)
(***************************************************************************)
NoHeader == [present |-> FALSE, scheme |-> "", rest |-> <<>>]
Header(scheme, rest) == [present |-> TRUE, scheme |-> scheme, rest |-> rest]
Bearer(tok) == Header("Bearer", <<tok>>)

\* authHeader?.split(' ')[1]
TokenOf(hdr) ==
    IF hdr.present /\ Len(hdr.rest) >= 1 THEN Some(hdr.rest[1]) ELSE None

Authenticate(hdr) == getUserFromToken(TokenOf(hdr), now)

(***************************************************************************)
(* Responses.  index.ts answers with status(code, body); part_000 returns  *)
(* the body alone, which Elysia sends as a 200.  io is the list of store   *)
(* and disk calls the step made.                                           *)
(***************************************************************************)
StatusOf(code) == IF variant = "index" THEN code ELSE 200

Reply(op, hdr, req, code, error, io) ==
    [op |-> op, hdr |-> hdr, req |-> req, status |-> code, error |-> error, io |-> io]

NoReply == [op |-> "none"]
Idle == [pc |-> "idle"]

(***************************************************************************)
(* POST /tasks                                                             *)
(***************************************************************************)
JsBool(b) == [t |-> "boolean", v |-> b]
JsUndefined == [t |-> "undefined", v |-> FALSE]
JsString == [t |-> "string", v |-> FALSE]

\* body: t.Object({ title: t.String(), date: t.String(), isChecked: t.Boolean() })
CreateSchema(body) ==
    IsSome(body.title) /\ IsSome(body.date) /\ body.isChecked.t = "boolean"

InvalidTaskDataTitleOnly(body) ==
    \/ ~IsSome(body.title) \/ Val(body.title) = <<>>
    \/ body.isChecked.t # "boolean"

\* !title || !date || typeof isChecked !== 'boolean'
InvalidTaskData(body) ==
    \/ ~IsSome(body.title) \/ Val(body.title) = <<>>
    \/ ~IsSome(body.date) \/ Val(body.date) = ""
    \/ body.isChecked.t # "boolean"

NewTask(ownerId, body) ==
    [id |-> nextTaskId, userId |-> ownerId, title |-> Val(body.title),
     date |-> Val(body.date), isChecked |-> body.isChecked.v]

CreateTask(hdr, body) ==
    LET payload == Authenticate(hdr) IN
    /\ IF ~CreateSchema(body) THEN
            /\ out' = Reply("create", hdr, body, 422, "VALIDATION", {})
            /\ UNCHANGED <<tasks, nextTaskId>>
       ELSE IF ~IsSome(payload) THEN
            /\ out' = Reply("create", hdr, body, StatusOf(401), "Unauthorized", {})
            /\ UNCHANGED <<tasks, nextTaskId>>
       ELSE IF InvalidTaskData(body) THEN
            /\ out' = Reply("create", hdr, body, StatusOf(400), "Invalid task data", {})
            /\ UNCHANGED <<tasks, nextTaskId>>
       ELSE IF \A u \in users : u.id # Val(payload).id THEN
            \* task.userId references user.id: the insert is refused and the
            \* exception leaves the handler
            /\ out' = Reply("create", hdr, body, 500, "INTERNAL", {"task.create"})
            /\ UNCHANGED <<tasks, nextTaskId>>
       ELSE
            /\ Cardinality(tasks) < MaxTasks
            /\ tasks' = tasks \cup {NewTask(Val(payload).id, body)}
            /\ nextTaskId' = nextTaskId + 1
            /\ out' = Reply("create", hdr, body, 200, "", {"task.create"})
                         @@ [task |-> NewTask(Val(payload).id, body)]
    /\ UNCHANGED <<variant, users, nextUserId, now, issued, flight, files, applied>>

(***************************************************************************)
(* GET /tasks                                                              *)
(***************************************************************************)
WhereAnyOwner(ownerId, query, task) ==
    /\ (IsSome(query.date) /\ Val(query.date) # "") => task.date = Val(query.date)
    /\ (IsSome(query.search) /\ Val(query.search) # <<>>)
          => ContainsInsensitive(task.title, Val(query.search))

\* let where = { userId }; if (date) where.date = date;
\* if (search) where.title = { contains: search, mode: 'insensitive' }
Where(ownerId, query, task) ==
    /\ task.userId = ownerId
    /\ (IsSome(query.date) /\ Val(query.date) # "") => task.date = Val(query.date)
    /\ (IsSome(query.search) /\ Val(query.search) # <<>>)
          => ContainsInsensitive(task.title, Val(query.search))

\* prisma.task.findMany({ where }); the rows come in the store's order, which
\* the handler does not fix: the result is modelled as the set of rows
FindMany(ownerId, query) == {task \in tasks : Where(ownerId, query, task)}

ListTasks(hdr, query) ==
    LET payload == Authenticate(hdr) IN
    /\ IF ~IsSome(payload) THEN
            out' = Reply("list", hdr, query, StatusOf(401), "Unauthorized", {})
       ELSE
            out' = Reply("list", hdr, query, 200, "", {"task.findMany"})
                     @@ [tasks |-> FindMany(Val(payload).id, query)]
    /\ UNCHANGED <<variant, users, nextUserId, tasks, nextTaskId, now, issued, flight, files, applied>>

(***************************************************************************)
(* PATCH /tasks/:id: findUnique, then update.                              *)
(***************************************************************************)
FindTask(id) == {task \in tasks : task.id = id}

MergeResettingChecked(task, body) ==
    [task EXCEPT !.title = IF IsSome(body.title) THEN Val(body.title) ELSE @,
                 !.date = IF IsSome(body.date) THEN Val(body.date) ELSE @,
                 !.isChecked = IF IsSome(body.isChecked) THEN Val(body.isChecked) ELSE FALSE]

\* data: { ...(title !== undefined ? { title } : {}), ... }
Merge(task, body) ==
    [task EXCEPT !.title = IF IsSome(body.title) THEN Val(body.title) ELSE @,
                 !.date = IF IsSome(body.date) THEN Val(body.date) ELSE @,
                 !.isChecked = IF IsSome(body.isChecked) THEN Val(body.isChecked) ELSE @]

NotFoundOnly(found, ownerId) == found = {}

\* !task || task.userId !== userPayload.id
NotFoundOrNotOwned(found, ownerId) ==
    found = {} \/ (\E task \in found : task.userId # ownerId)

PatchFind(r, hdr, id, body) ==
    LET payload == Authenticate(hdr)
        found == FindTask(id)
        req == [id |-> id, body |-> body]
    IN
    /\ flight[r].pc = "idle"
    /\ IF ~IsSome(payload) THEN
            /\ out' = Reply("patch", hdr, req, StatusOf(401), "Unauthorized", {})
            /\ UNCHANGED flight
       ELSE IF NotFoundOrNotOwned(found, Val(payload).id) THEN
            /\ out' = Reply("patch", hdr, req, StatusOf(404), "Task not found",
                            {"task.findUnique"})
            /\ UNCHANGED flight
       ELSE
            \* const task = await prisma.task.findUnique(...): the handler
            \* holds the row it read while the update is awaited
            /\ flight' = [flight EXCEPT ![r] =
                             [pc |-> "patch_update", hdr |-> hdr, req |-> req,
                              task |-> CHOOSE t \in found : TRUE]]
            /\ out' = NoReply
    /\ UNCHANGED <<variant, users, nextUserId, tasks, nextTaskId, now, issued, files, applied>>

RowReadAtFind(r, found) == flight[r].task

\* where: { id }: the update is applied to the row the store holds under the
\* id when the write happens; data is built from the body alone
RowUpdated(r, found) == CHOOSE t \in found : TRUE

\* prisma.task.update({ where: { id }, data }) writes one row and returns it
UpdateTask(r) ==
    LET req == flight[r].req
        found == FindTask(req.id)
    IN
    /\ flight[r].pc = "patch_update"
    /\ flight' = [flight EXCEPT ![r] = Idle]
    /\ IF found = {} THEN
            /\ out' = Reply("patch", flight[r].hdr, req, 500, "INTERNAL", {"task.update"})
            /\ UNCHANGED tasks
       ELSE
            LET task == RowUpdated(r, found) IN
            /\ tasks' = (tasks \ {CHOOSE t \in found : TRUE}) \cup {Merge(task, req.body)}
            /\ out' = Reply("patch", flight[r].hdr, req, 200, "", {"task.update"})
                         @@ [task |-> Merge(task, req.body)]
    /\ UNCHANGED <<variant, users, nextUserId, nextTaskId, now, issued, files>>

PatchUpdate(r) == UpdateTask(r) /\ UNCHANGED applied

(***************************************************************************)
(* GET /profile                                                            *)
(***************************************************************************)
FindUserById(id) == {u \in users : u.id = id}
FindUserByEmail(email) == {u \in users : u.email = email}

\* include: { tasks: true }
TasksOf(userId) == {task \in tasks : task.userId = userId}

StatsCompletedAll(userTasks) ==
    [total |-> Cardinality(userTasks), completed |-> Cardinality(userTasks)]

\* total: user.tasks.length, completed: user.tasks.filter(task => task.isChecked).length
Stats(userTasks) ==
    [total |-> Cardinality(userTasks),
     completed |-> Cardinality({task \in userTasks : task.isChecked})]

GetProfile(hdr) ==
    LET payload == Authenticate(hdr) IN
    /\ IF ~IsSome(payload) THEN
            out' = Reply("profile", hdr, None, StatusOf(401), "Unauthorized", {})
       ELSE IF FindUserById(Val(payload).id) = {} THEN
            out' = Reply("profile", hdr, None, StatusOf(404), "User not found",
                         {"user.findUnique"})
       ELSE
            LET user == CHOOSE u \in FindUserById(Val(payload).id) : TRUE IN
            out' = Reply("profile", hdr, None, 200, "", {"user.findUnique"})
                     @@ [email |-> user.email, image |-> user.image,
                         stats |-> Stats(TasksOf(user.id))]
    /\ UNCHANGED <<variant, users, nextUserId, tasks, nextTaskId, now, issued, flight, files, applied>>

(***************************************************************************)
(* POST /profile/image: write the file, then update the user row.          *)
(***************************************************************************)
NoImage == [set |-> FALSE, uid |-> 0, ts |-> 0]
\* `uploads/user_${userPayload.id}_${Date.now()}${ext}`
ImagePath(uid, t) == [set |-> TRUE, uid |-> uid, ts |-> t]

\* body: t.Object({ image: t.File({ type: [...], maxSize: 5 MiB }) })
UploadSchema(file) == IsSome(file) /\ Val(file).allowed

UploadWrite(r, hdr, file) ==
    LET payload == Authenticate(hdr) IN
    /\ flight[r].pc = "idle"
    /\ IF ~UploadSchema(file) THEN
            /\ out' = Reply("upload", hdr, file, 422, "VALIDATION", {})
            /\ UNCHANGED <<flight, files>>
       ELSE IF ~IsSome(payload) THEN
            /\ out' = Reply("upload", hdr, file, StatusOf(401), "Unauthorized", {})
            /\ UNCHANGED <<flight, files>>
       ELSE IF Val(file).name = "" THEN
            /\ out' = Reply("upload", hdr, file, StatusOf(400), "No image file uploaded", {})
            /\ UNCHANGED <<flight, files>>
       ELSE
            /\ files' = files \cup {ImagePath(Val(payload).id, now)}
            /\ flight' = [flight EXCEPT ![r] =
                             [pc |-> "upload_update", hdr |-> hdr, req |-> file,
                              image |-> ImagePath(Val(payload).id, now)]]
            /\ out' = NoReply
    /\ UNCHANGED <<variant, users, nextUserId, tasks, nextTaskId, now, issued, applied>>

\* prisma.user.update({ where: { id }, data: { image: relativePath } })
UploadUpdate(r) ==
    LET image == flight[r].image
        found == FindUserById(image.uid)
    IN
    /\ flight[r].pc = "upload_update"
    /\ flight' = [flight EXCEPT ![r] = Idle]
    /\ IF found = {} THEN
            /\ out' = Reply("upload", flight[r].hdr, flight[r].req, 500, "INTERNAL",
                            {"user.update"})
            /\ UNCHANGED users
       ELSE
            /\ users' = {IF u.id = image.uid THEN [u EXCEPT !.image = image] ELSE u
                           : u \in users}
            /\ out' = Reply("upload", flight[r].hdr, flight[r].req, 200, "",
                            {"user.update"}) @@ [image |-> image]
    /\ UNCHANGED <<variant, nextUserId, tasks, nextTaskId, now, issued, files, applied>>

(***************************************************************************)
(* POST /register (part_000): findUnique, then hash and create.  user.email*)
(* is unique in the store (findUnique({ where: { email } }) needs it), so  *)
(* a second insert of an email throws, and the handler does not catch it.  *)
(***************************************************************************)
NewUser(email, password, salt) ==
    [id |-> nextUserId, email |-> email, password |-> bcryptHash(password, salt),
     image |-> NoImage]

RegisterFind(r, email, password) ==
    LET req == [email |-> email, password |-> password] IN
    /\ variant = "part000"
    /\ flight[r].pc = "idle"
    /\ IF email = "" \/ password = "" THEN
            /\ out' = Reply("register", NoHeader, req, 200, "Email and password required", {})
            /\ UNCHANGED flight
       ELSE IF FindUserByEmail(email) # {} THEN
            /\ out' = Reply("register", NoHeader, req, 200, "User exists",
                            {"user.findUnique"})
            /\ UNCHANGED flight
       ELSE
            /\ flight' = [flight EXCEPT ![r] = [pc |-> "register_create", req |-> req]]
            /\ out' = NoReply
    /\ UNCHANGED <<variant, users, nextUserId, tasks, nextTaskId, now, issued, files, applied>>

RegisterCreate(r, salt) ==
    LET req == flight[r].req IN
    /\ flight[r].pc = "register_create"
    /\ flight' = [flight EXCEPT ![r] = Idle]
    /\ IF FindUserByEmail(req.email) # {} THEN
            /\ out' = Reply("register", NoHeader, req, 500, "INTERNAL", {"user.create"})
            /\ UNCHANGED <<users, nextUserId>>
       ELSE
            /\ Cardinality(users) < MaxUsers
            /\ users' = users \cup {NewUser(req.email, req.password, salt)}
            /\ nextUserId' = nextUserId + 1
            /\ out' = Reply("register", NoHeader, req, 200, "", {"user.create"})
                        @@ [message |-> "Registered successfully"]
    /\ UNCHANGED <<variant, tasks, nextTaskId, now, issued, files, applied>>

(***************************************************************************)
(* POST /login                                                             *)
(***************************************************************************)
PasswordValidAlways(user, password) == TRUE

\* const valid = await bcrypt.compare(password, user.password)
PasswordValid(user, password) == bcryptCompare(password, user.password)

\* part_000: no registration here, 1h tokens
LoginPart000(email, password) ==
    LET req == [email |-> email, password |-> password]
        found == FindUserByEmail(email)
    IN
    /\ variant = "part000"
    /\ IF found = {} THEN
            /\ out' = Reply("login", NoHeader, req, 200, "Invalid credentials",
                            {"user.findUnique"})
            /\ UNCHANGED issued
       ELSE
            LET user == CHOOSE u \in found : TRUE IN
            IF ~PasswordValid(user, password) THEN
                /\ out' = Reply("login", NoHeader, req, 200, "Invalid credentials",
                                {"user.findUnique"})
                /\ UNCHANGED issued
            ELSE
                /\ issued' = issued \cup {jwtSign(user.id, user.email, now, ExpiresIn1h)}
                /\ out' = Reply("login", NoHeader, req, 200, "", {"user.findUnique"})
                            @@ [token |-> jwtSign(user.id, user.email, now, ExpiresIn1h)]
    /\ UNCHANGED <<variant, users, nextUserId, tasks, nextTaskId, now, flight, files, applied>>

\* index.ts: an unknown email is registered, 7d tokens
LoginFind(r, email, password) ==
    LET req == [email |-> email, password |-> password]
        found == FindUserByEmail(email)
    IN
    /\ variant = "index"
    /\ flight[r].pc = "idle"
    /\ IF email = "" \/ password = "" THEN
            /\ out' = Reply("login", NoHeader, req, 400, "Email and password required", {})
            /\ UNCHANGED <<flight, issued>>
       ELSE IF found = {} THEN
            /\ flight' = [flight EXCEPT ![r] = [pc |-> "login_create", req |-> req]]
            /\ out' = NoReply
            /\ UNCHANGED issued
       ELSE
            LET user == CHOOSE u \in found : TRUE IN
            IF ~PasswordValid(user, password) THEN
                /\ out' = Reply("login", NoHeader, req, 400, "Invalid credentials",
                                {"user.findUnique"})
                /\ UNCHANGED <<flight, issued>>
            ELSE
                /\ issued' = issued \cup {jwtSign(user.id, user.email, now, ExpiresIn7d)}
                /\ out' = Reply("login", NoHeader, req, 200, "", {"user.findUnique"})
                            @@ [token |-> jwtSign(user.id, user.email, now, ExpiresIn7d)]
                /\ UNCHANGED flight
    /\ UNCHANGED <<variant, users, nextUserId, tasks, nextTaskId, now, files, applied>>

LoginCreate(r, salt) ==
    LET req == flight[r].req IN
    /\ flight[r].pc = "login_create"
    /\ flight' = [flight EXCEPT ![r] = Idle]
    /\ IF FindUserByEmail(req.email) # {} THEN
            /\ out' = Reply("login", NoHeader, req, 500, "INTERNAL", {"user.create"})
            /\ UNCHANGED <<users, nextUserId, issued>>
       ELSE
            /\ Cardinality(users) < MaxUsers
            /\ users' = users \cup {NewUser(req.email, req.password, salt)}
            /\ nextUserId' = nextUserId + 1
            /\ issued' = issued \cup {jwtSign(nextUserId, req.email, now, ExpiresIn7d)}
            /\ out' = Reply("login", NoHeader, req, 200, "", {"user.create"})
                        @@ [token |-> jwtSign(nextUserId, req.email, now, ExpiresIn7d)]
    /\ UNCHANGED <<variant, tasks, nextTaskId, now, files, applied>>

(***************************************************************************)
(* The environment: time passes; a user row is removed behind the          *)
(* service's back.                                                         *)
(***************************************************************************)
Tick(t) ==
    /\ t > now
    /\ now' = t
    /\ out' = NoReply
    /\ UNCHANGED <<variant, users, nextUserId, tasks, nextTaskId, issued, flight, files, applied>>

OutOfBandDeleteUser(u) ==
    /\ u \in users
    /\ TasksOf(u.id) = {}
    /\ users' = users \ {u}
    /\ out' = NoReply
    /\ UNCHANGED <<variant, nextUserId, tasks, nextTaskId, now, issued, flight, files, applied>>

(***************************************************************************)
(* Initial states.  Init is the service after start-up on an empty store.  *)
(* InitTwoUsers is the state after a@x and b@x have registered and logged  *)
(* in at time 0 (reached from Init by those requests).                     *)
(***************************************************************************)
Variants == {"index", "part000"}

Init ==
    /\ variant \in Variants
    /\ users = {}
    /\ nextUserId = 1
    /\ tasks = {}
    /\ nextTaskId = 1
    /\ now = 0
    /\ issued = {}
    /\ flight = [r \in Reqs |-> Idle]
    /\ files = {}
    /\ out = NoReply
    /\ applied = <<>>

Alice == [id |-> 1, email |-> "a@x", password |-> bcryptHash("p", "s1"), image |-> NoImage]
Bob == [id |-> 2, email |-> "b@x", password |-> bcryptHash("q", "s2"), image |-> NoImage]

InitTwoUsers ==
    /\ variant \in Variants
    /\ users = {Alice, Bob}
    /\ nextUserId = 3
    /\ tasks = {}
    /\ nextTaskId = 1
    /\ now = 0
    /\ issued = {jwtSign(u.id, u.email, 0, ExpiresIn) : u \in {Alice, Bob}}
    /\ flight = [r \in Reqs |-> Idle]
    /\ files = {}
    /\ out = NoReply
    /\ applied = <<>>

\* what a client that logged in can send
IssuedHeaders == {Bearer(tok) : tok \in issued}

(***************************************************************************)
(* SpecList: tasks are created and listed.                                 *)
(***************************************************************************)
ListCreateBodies ==
    [title : {Some(<<"A", "b">>), Some(<<"b">>)}, date : {Some("d1"), Some("d2")},
     isChecked : {JsBool(FALSE)}]

ListQueries ==
    [date : {None, Some(""), Some("d1")},
     search : {None, Some(<<>>), Some(<<"a">>), Some(<<"A", "B">>)}]

NextList ==
    \/ \E hdr \in IssuedHeaders, body \in ListCreateBodies : CreateTask(hdr, body)
    \/ \E hdr \in IssuedHeaders \cup {NoHeader}, query \in ListQueries : ListTasks(hdr, query)

SpecList == InitTwoUsers /\ [][NextList]_vars

(***************************************************************************)
(* SpecCreate: tasks are created, with every way a body can be wrong.      *)
(***************************************************************************)
CreateBody(title, date, isChecked) ==
    [title |-> title, date |-> date, isChecked |-> isChecked]

TaskCreateBodies ==
    {CreateBody(Some(t), Some("d1"), JsBool(b)) : t \in {<<"A", "b">>, <<"b">>}, b \in BOOLEAN}
      \cup {CreateBody(t, Some("d1"), JsBool(TRUE)) : t \in {None, Some(<<>>)}}
      \cup {CreateBody(Some(<<"A", "b">>), d, JsBool(TRUE)) : d \in {None, Some("")}}
      \cup {CreateBody(Some(<<"A", "b">>), Some("d1"), c) : c \in {JsUndefined, JsString}}
      \cup {CreateBody(Some(<<>>), Some(""), JsUndefined)}

NextCreate ==
    \E hdr \in IssuedHeaders \cup {NoHeader}, body \in TaskCreateBodies : CreateTask(hdr, body)

SpecCreate == InitTwoUsers /\ [][NextCreate]_vars

(***************************************************************************)
(* SpecPatch: tasks are created and patched, the requests served one after *)
(* the other (no request starts while a PATCH is between its two steps).   *)
(***************************************************************************)
PatchCreateBodies ==
    {CreateBody(Some(<<"A", "b">>), Some("d1"), JsBool(FALSE)),
     CreateBody(Some(<<>>), Some(""), JsBool(FALSE))}

PatchBody(title, date, isChecked) ==
    [title |-> title, date |-> date, isChecked |-> isChecked]

TaskPatchBodies ==
    {PatchBody(None, None, None),
     PatchBody(Some(<<"b">>), None, None),
     PatchBody(None, Some(""), None),
     PatchBody(None, None, Some(TRUE)),
     PatchBody(Some(<<"b">>), Some(""), Some(TRUE))}

TaskIds == 1..(MaxTasks + 1)

NextPatch ==
    \/ /\ flight[1].pc = "idle"
       /\ \E hdr \in IssuedHeaders, body \in PatchCreateBodies : CreateTask(hdr, body)
    \/ \E hdr \in IssuedHeaders, id \in TaskIds, body \in TaskPatchBodies :
          PatchFind(1, hdr, id, body)
    \/ PatchUpdate(1)

SpecPatch == InitTwoUsers /\ [][NextPatch]_vars

(***************************************************************************)
(* SpecProfile: tasks are created and checked off, images uploaded, users  *)
(* removed out of band, and the profile read at any point in between.      *)
(***************************************************************************)
ProfileCreateBodies ==
    {CreateBody(Some(<<"A", "b">>), Some("d1"), JsBool(b)) : b \in BOOLEAN}

ImageFile(name, allowed) == [name |-> name, allowed |-> allowed]

NextProfile ==
    \/ \E hdr \in IssuedHeaders, body \in ProfileCreateBodies : CreateTask(hdr, body)
    \/ \E hdr \in IssuedHeaders, id \in TaskIds :
          PatchFind(1, hdr, id, PatchBody(None, None, Some(TRUE)))
    \/ PatchUpdate(1)
    \/ \E hdr \in IssuedHeaders : UploadWrite(2, hdr, Some(ImageFile("a.png", TRUE)))
    \/ UploadUpdate(2)
    \/ \E u \in users : OutOfBandDeleteUser(u)
    \/ \E hdr \in IssuedHeaders \cup {NoHeader} : GetProfile(hdr)

SpecProfile == InitTwoUsers /\ [][NextProfile]_vars

(***************************************************************************)
(* SpecGate: the five protected routes under every shape of Authorization  *)
(* header.  It starts ExpiresIn seconds after a@x logged in (at time 0),   *)
(* b@x having logged in at time 1: the first token has just expired.       *)
(***************************************************************************)
EmptyToken == [sig |-> "empty", id |-> 0, email |-> "", iat |-> 0, exp |-> 0]
GarbageToken == [sig |-> "garbage", id |-> 0, email |-> "", iat |-> 0, exp |-> 0]
Forged(tok) == [tok EXCEPT !.sig = "bad"]

InitGate ==
    /\ variant \in Variants
    /\ users = {Alice, Bob}
    /\ nextUserId = 3
    /\ tasks = {}
    /\ nextTaskId = 1
    /\ now = ExpiresIn
    /\ issued = {jwtSign(Alice.id, Alice.email, 0, ExpiresIn),
                 jwtSign(Bob.id, Bob.email, 1, ExpiresIn)}
    /\ flight = [r \in Reqs |-> Idle]
    /\ files = {}
    /\ out = NoReply
    /\ applied = <<>>

GateHeaders ==
    {NoHeader, Header("Bearer", <<>>), Header("jwt", <<>>), Bearer(GarbageToken)}
      \cup {Bearer(tok) : tok \in issued}
      \cup {Bearer(Forged(tok)) : tok \in issued}
      \cup {Header("Bearer", <<EmptyToken, tok>>) : tok \in issued}
      \cup {Header("Basic", <<tok>>) : tok \in issued}

NextGate ==
    \/ \E hdr \in GateHeaders :
          CreateTask(hdr, CreateBody(Some(<<"A", "b">>), Some("d1"), JsBool(FALSE)))
    \/ \E hdr \in GateHeaders : ListTasks(hdr, [date |-> None, search |-> None])
    \/ \E hdr \in GateHeaders : PatchFind(1, hdr, 1, PatchBody(None, None, Some(TRUE)))
    \/ PatchUpdate(1)
    \/ \E hdr \in GateHeaders : GetProfile(hdr)
    \/ \E hdr \in GateHeaders : UploadWrite(2, hdr, Some(ImageFile("a.png", TRUE)))
    \/ UploadUpdate(2)

SpecGate == InitGate /\ [][NextGate]_vars

(***************************************************************************)
(* SpecRegister: POST /register requests in flight together (part_000).    *)
(***************************************************************************)
Emails == {"", "a@x", "b@x"}
Passwords == {"", "p", "q"}

InitRegister == Init /\ variant = "part000"

NextRegister ==
    \/ \E r \in Reqs, email \in Emails, password \in Passwords :
          RegisterFind(r, email, password)
    \/ \E r \in Reqs, salt \in Salts : RegisterCreate(r, salt)

SpecRegister == InitRegister /\ [][NextRegister]_vars

(***************************************************************************)
(* SpecLogin: registration and login, in both variants.                    *)
(***************************************************************************)
NextLogin ==
    \/ \E email \in {"a@x", "b@x"} : RegisterFind(1, email, "p")
    \/ RegisterCreate(1, "s1")
    \/ \E email \in Emails, password \in Passwords : LoginPart000(email, password)
    \/ \E r \in Reqs, email \in Emails, password \in Passwords :
          LoginFind(r, email, password)
    \/ \E r \in Reqs : LoginCreate(r, "s1")

SpecLogin == Init /\ [][NextLogin]_vars

(***************************************************************************)
(* SpecToken: a@x logs in at various times, time passes, and the tokens    *)
(* are presented to GET /profile.  The clock takes the instants around     *)
(* issuance and around expiry.                                             *)
(***************************************************************************)
Instants == (0..MaxSkew) \cup {ExpiresIn - 1 + d : d \in 0..(MaxSkew + 1)}

InitToken ==
    /\ variant \in Variants
    /\ users = {Alice, Bob}
    /\ nextUserId = 3
    /\ tasks = {}
    /\ nextTaskId = 1
    /\ now = 0
    /\ issued = {}
    /\ flight = [r \in Reqs |-> Idle]
    /\ files = {}
    /\ out = NoReply
    /\ applied = <<>>

NextToken ==
    \/ LoginPart000("a@x", "p")
    \/ LoginFind(1, "a@x", "p")
    \/ \E t \in Instants : Tick(t)
    \/ \E hdr \in IssuedHeaders : GetProfile(hdr)
    \/ \E u \in users : OutOfBandDeleteUser(u)

SpecToken == InitToken /\ [][NextToken]_vars

(***************************************************************************)
(* SpecRace: PATCH requests of the owner, one per request slot, all on the *)
(* same stored task; their find and update steps interleave freely.  Each  *)
(* write is entered in the history as the store applies it.                *)
(***************************************************************************)
RaceTask == [id |-> 1, userId |-> Alice.id, title |-> <<"A", "b">>, date |-> "d1",
             isChecked |-> FALSE]
BystanderTask == [id |-> 2, userId |-> Bob.id, title |-> <<"b">>, date |-> "d1",
                  isChecked |-> FALSE]

InitRace ==
    /\ variant \in Variants
    /\ users = {Alice, Bob}
    /\ nextUserId = 3
    /\ tasks = {RaceTask, BystanderTask}
    /\ nextTaskId = 3
    /\ now = 0
    /\ issued = {jwtSign(u.id, u.email, 0, ExpiresIn) : u \in {Alice, Bob}}
    /\ flight = [r \in Reqs |-> Idle]
    /\ files = {}
    /\ out = NoReply
    /\ applied = <<>>

RacePatchBodies ==
    [title : {None, Some(<<"a">>), Some(<<"b">>)}, date : {None, Some("d2")},
     isChecked : {None, Some(TRUE)}]

HasApplied(r) == \E i \in 1..Len(applied) : applied[i].slot = r

\* a request of the race starts: the slot has sent no PATCH before
RacePatchFind(r, body) ==
    /\ ~HasApplied(r)
    /\ PatchFind(r, Bearer(jwtSign(Alice.id, Alice.email, 0, ExpiresIn)), RaceTask.id, body)

\* the store applies the request's update; the history takes the row the
\* request had read, the row stored before the write and the response
RacePatchUpdate(r) ==
    /\ UpdateTask(r)
    /\ applied' = Append(applied,
                         [slot |-> r, body |-> flight[r].req.body,
                          read |-> flight[r].task,
                          before |-> FindTask(flight[r].req.id),
                          reply |-> out'])

NextRace ==
    \/ \E r \in Reqs, body \in RacePatchBodies : RacePatchFind(r, body)
    \/ \E r \in Reqs : RacePatchUpdate(r)

SpecRace == InitRace /\ [][NextRace]_vars

(***************************************************************************)
(* Spec: the whole service from an empty store.                            *)
(***************************************************************************)
Next ==
    \/ \E r \in Reqs, email \in Emails, password \in Passwords :
          RegisterFind(r, email, password)
    \/ \E r \in Reqs, salt \in Salts : RegisterCreate(r, salt)
    \/ \E email \in Emails, password \in Passwords : LoginPart000(email, password)
    \/ \E r \in Reqs, email \in Emails, password \in Passwords :
          LoginFind(r, email, password)
    \/ \E r \in Reqs, salt \in Salts : LoginCreate(r, salt)
    \/ \E hdr \in GateHeaders, body \in TaskCreateBodies : CreateTask(hdr, body)
    \/ \E hdr \in GateHeaders, query \in ListQueries : ListTasks(hdr, query)
    \/ \E r \in Reqs, hdr \in GateHeaders, id \in TaskIds, body \in TaskPatchBodies :
          PatchFind(r, hdr, id, body)
    \/ \E r \in Reqs : PatchUpdate(r)
    \/ \E hdr \in GateHeaders : GetProfile(hdr)
    \/ \E r \in Reqs, hdr \in GateHeaders, name \in {"", "a.png"}, allowed \in BOOLEAN :
          UploadWrite(r, hdr, Some(ImageFile(name, allowed)))
    \/ \E r \in Reqs : UploadUpdate(r)
    \/ \E t \in Instants : Tick(t)

Spec == Init /\ [][Next]_vars

(***************************************************************************)
(* Properties.                                                             *)
(***************************************************************************)
\* hdr is "Authorization: Bearer <token>" with a token issued to user id/email
\* that has not expired
ValidTokenFor(hdr, id) ==
    \E tok \in issued : hdr = Bearer(tok) /\ tok.id = id /\ now < tok.exp

CallerIds == {tok.id : tok \in issued}

SameLetter(a, b) == a = b \/ {a, b} \in {{"a", "A"}, {"b", "B"}}

\* sub occurs in s at some offset, letters compared without case
SubstringIgnoringCase(sub, s) ==
    \E off \in 0..Len(s) :
        /\ off + Len(sub) <= Len(s)
        /\ \A k \in 1..Len(sub) : SameLetter(sub[k], s[off + k])

\* C1 as claimed: GET /tasks with a valid token for A returns exactly A's tasks
\* that satisfy every filter present in the query (date: equality; search:
\* case-insensitive substring of the title), and never a task of another user.
C1_ListPresentFilters ==
    \A a \in CallerIds :
        (out.op = "list" /\ ValidTokenFor(out.hdr, a)) =>
            /\ out.error = ""
            /\ out.tasks =
                 {task \in tasks :
                    /\ task.userId = a
                    /\ IsSome(out.req.date) => task.date = Val(out.req.date)
                    /\ IsSome(out.req.search)
                         => SubstringIgnoringCase(Val(out.req.search), task.title)}

\* C1 as amended: the same, where a filter counts as present only when it is a
\* non-empty string (an empty date or search is ignored).
C1_ListNonEmptyFilters ==
    \A a \in CallerIds :
        (out.op = "list" /\ ValidTokenFor(out.hdr, a)) =>
            /\ out.error = ""
            /\ out.tasks =
                 {task \in tasks :
                    /\ task.userId = a
                    /\ (IsSome(out.req.date) /\ Val(out.req.date) # "")
                         => task.date = Val(out.req.date)
                    /\ (IsSome(out.req.search) /\ Val(out.req.search) # <<>>)
                         => SubstringIgnoringCase(Val(out.req.search), task.title)}

\* a list with both filters set returned a task whose title matches the search
\* only without case, while another user holds a task with the same title and date
C1_Witness ==
    /\ out.op = "list" /\ out.error = ""
    /\ out.req.date = Some("d1") /\ out.req.search = Some(<<"A", "B">>)
    /\ \E mine \in out.tasks, other \in tasks \ out.tasks :
          other.userId # mine.userId /\ other.title = mine.title /\ other.date = mine.date

\* the task a well-formed create body asks for, owned by a
TaskAsked(task, a, body) ==
    /\ task.userId = a
    /\ task.title = Val(body.title)
    /\ task.date = Val(body.date)
    /\ task.isChecked = body.isChecked.v

\* title or date missing or empty, isChecked missing or not a boolean
BadCreateBody(body) ==
    \/ body.title \in {None, Some(<<>>)}
    \/ body.date \in {None, Some("")}
    \/ body.isChecked \notin {JsBool(TRUE), JsBool(FALSE)}

\* C6: POST /tasks by an authenticated caller A with a bad body (title or date
\* missing or empty, isChecked missing or not a boolean) is rejected with a
\* validation error and stores nothing; otherwise exactly one new task is
\* stored, with the supplied title, date and isChecked and userId = A.id, and
\* that task is returned.
C6_CreateValidates ==
    [][\A a \in CallerIds :
         (out'.op = "create" /\ ValidTokenFor(out'.hdr, a)) =>
             IF BadCreateBody(out'.req)
             THEN /\ out'.error \in {"VALIDATION", "Invalid task data"}
                  /\ out'.status \in {StatusOf(400), 422}
                  /\ tasks' = tasks
             ELSE /\ out'.error = "" /\ out'.status = 200
                  /\ out'.task \notin tasks
                  /\ tasks' = tasks \cup {out'.task}
                  /\ \A old \in tasks : old.id # out'.task.id
                  /\ TaskAsked(out'.task, a, out'.req)]_vars

\* the second user created a task while the first one's task is stored, and
\* the new task is stored as asked
C6_Witness ==
    /\ out.op = "create" /\ out.error = ""
    /\ out.task \in tasks
    /\ out.task.userId = Bob.id /\ out.task.isChecked = FALSE
    /\ \E other \in tasks : other.userId = Alice.id

\* a create with an empty date was rejected while tasks are stored
C6_WitnessRejected ==
    /\ out.op = "create" /\ out.error = "Invalid task data"
    /\ out.req.date = Some("") /\ tasks # {}

(***************************************************************************)
(* PATCH /tasks/:id                                                        *)
(***************************************************************************)
Owned(id, a) == {task \in tasks : task.id = id /\ task.userId = a}

\* C2: PATCH /tasks/:id by an authenticated caller A on an id that does not
\* exist, or that is a task of another user, gives the same Not-Found answer
\* in both cases ({error: 'Task not found'}, never Unauthorized) and changes
\* no stored task.
C2_PatchNotFound ==
    [][\A a \in CallerIds :
         (/\ out'.op = "patch"
          /\ ValidTokenFor(out'.hdr, a)
          /\ Owned(out'.req.id, a) = {}) =>
             /\ out'.error = "Task not found"
             /\ out'.status = StatusOf(404)
             /\ tasks' = tasks
             /\ users' = users]_vars

\* a caller patched a stored task of another user and got Not-Found
C2_Witness ==
    /\ out.op = "patch" /\ out.error = "Task not found"
    /\ \E a \in CallerIds, task \in tasks :
          /\ ValidTokenFor(out.hdr, a)
          /\ task.id = out.req.id /\ task.userId # a
          /\ IsSome(out.req.body.title) /\ task.title # Val(out.req.body.title)

\* the row a successful patch leaves: the fields the body holds are replaced,
\* the others, id and userId are kept
Patched(old, body) ==
    [id |-> old.id, userId |-> old.userId,
     title |-> IF body.title = None THEN old.title ELSE Val(body.title),
     date |-> IF body.date = None THEN old.date ELSE Val(body.date),
     isChecked |-> IF body.isChecked = None THEN old.isChecked ELSE Val(body.isChecked)]

\* C3: a successful PATCH by the owner changes, on the targeted task, only the
\* fields of title, date and isChecked present in the body, each to the value
\* supplied; absent fields, id and userId keep their value, no other task and
\* no user row changes, and the task returned is the stored task.
C3_PatchFrame ==
    [][(out'.op = "patch" /\ out'.error = "") =>
          \E old \in tasks :
              /\ old.id = out'.req.id
              /\ \E tok \in issued : out'.hdr = Bearer(tok) /\ tok.id = old.userId
              /\ tasks' = (tasks \ {old}) \cup {Patched(old, out'.req.body)}
              /\ out'.task = Patched(old, out'.req.body)
              /\ out'.task \in tasks'
              /\ out'.status = 200
              /\ users' = users]_vars

\* a patch holding only isChecked succeeded on a task whose title and date are
\* those it was created with, while another task is stored
C3_Witness ==
    /\ out.op = "patch" /\ out.error = ""
    /\ out.req.body = PatchBody(None, None, Some(TRUE))
    /\ out.task \in tasks
    /\ out.task.title = <<"A", "b">> /\ out.task.date = "d1" /\ out.task.isChecked
    /\ \E other \in tasks : other.id # out.task.id

\* C10: every stored task has a non-empty title and a non-empty date, after
\* any sequence of POST /tasks and PATCH /tasks/:id.
C10_NonEmptyTitleAndDate ==
    \A task \in tasks : task.title # <<>> /\ task.date # ""

(***************************************************************************)
(* GET /profile                                                            *)
(***************************************************************************)
\* C9: GET /profile for an authenticated caller whose id is a stored user's
\* returns that user's email and image, stats.total = the number of stored
\* tasks with that userId and stats.completed = the number of those with
\* isChecked true (0 <= completed <= total); with no such user it returns
\* Not-Found.
C9_ProfileStats ==
    \A a \in CallerIds :
        (out.op = "profile" /\ ValidTokenFor(out.hdr, a)) =>
            IF \E u \in users : u.id = a
            THEN /\ out.error = "" /\ out.status = 200
                 /\ \E u \in users : u.id = a /\ out.email = u.email /\ out.image = u.image
                 /\ out.stats.total = Cardinality({task \in tasks : task.userId = a})
                 /\ out.stats.completed =
                      Cardinality({task \in tasks : task.userId = a /\ task.isChecked = TRUE})
                 /\ 0 <= out.stats.completed /\ out.stats.completed <= out.stats.total
            ELSE /\ out.error = "User not found" /\ out.status = StatusOf(404)

\* a profile was read with an uploaded image, one task done and one not, all
\* the caller's
C9_Witness ==
    /\ out.op = "profile" /\ out.error = ""
    /\ out.image.set
    /\ out.stats.total = 2 /\ out.stats.completed = 1

\* a profile was asked for with the token of a user removed from the store,
\* while the other user holds a task
C9_WitnessNotFound ==
    /\ out.op = "profile" /\ out.error = "User not found"
    /\ tasks # {}

(***************************************************************************)
(* The bearer gate                                                         *)
(***************************************************************************)
ProtectedOps == {"create", "list", "patch", "profile", "upload"}

\* the header is "Bearer <token>" and the token verifies now
BearerVerifies(hdr) ==
    /\ hdr.present /\ hdr.scheme = "Bearer" /\ Len(hdr.rest) = 1
    /\ hdr.rest[1].sig = "good" /\ now < hdr.rest[1].exp

\* C4: on every protected route, a request whose Authorization header is
\* absent, is not "Bearer <token>", or whose token fails verification is
\* answered Unauthorized, and no store or file call is made for it.
C4_GateRejects ==
    (out.op \in ProtectedOps /\ ~BearerVerifies(out.hdr)) =>
        /\ out.error = "Unauthorized"
        /\ out.status = StatusOf(401)
        /\ out.io = {}

(***************************************************************************)
(* POST /register                                                          *)
(***************************************************************************)
\* C5: over any interleaving of POST /register requests, at most one request
\* creates a user with a given email, and every other request for that email
\* is answered {error: 'User exists'} and creates no user.
C5_RegisterConflict ==
    /\ \A u1 \in users, u2 \in users : u1.email = u2.email => u1 = u2
    /\ (out.op = "register" /\ out.req.email # "" /\ out.req.password # "") =>
          \/ out.error = "User exists"
          \/ /\ out.error = ""
             /\ \E u \in users : u.email = out.req.email /\ u.password.of = out.req.password

(***************************************************************************)
(* POST /login                                                             *)
(***************************************************************************)
Matching(email) == {u \in users : u.email = email}
Verifies(password, u) == u.password.of = password

C7_WitnessWrongPassword ==
    /\ out.op = "login" /\ out.error = "Invalid credentials"
    /\ \E u \in users : u.email = out.req.email /\ ~Verifies(out.req.password, u)

(***************************************************************************)
(* Token lifetime                                                          *)
(***************************************************************************)
\* C8: a token issued at login for user X at time t0 with time-to-live ttl
\* verifies to {id: X.id, email: X.email} at every time t0 <= t < t0 + ttl and
\* fails (getUserFromToken is null, the request Unauthorized) at every
\* t >= t0 + ttl, the instant t0 + ttl included, whatever the store holds.
\* Times are the seconds of the token's clock (iat, exp).
C8_TokenLifetime ==
    /\ \A tok \in issued :
          /\ tok.iat <= now
          /\ tok.id = Alice.id /\ tok.email = Alice.email
          /\ getUserFromToken(Some(tok), now) =
               IF now < tok.iat + ExpiresIn
               THEN Some([id |-> Alice.id, email |-> Alice.email])
               ELSE None
    /\ \A tok \in issued :
          (out.op = "profile" /\ out.hdr = Bearer(tok)) =>
              IF now < tok.iat + ExpiresIn
              THEN /\ out.error \in {"", "User not found"}
                   /\ out.error = "" => out.email = Alice.email
                   /\ out.error = "User not found" => Alice \notin users
              ELSE out.error = "Unauthorized"

\* a token issued after time 0 was refused at the very instant of its expiry,
\* with its user still stored, while a younger token still verifies
C8_Witness ==
    /\ out.op = "profile" /\ out.error = "Unauthorized"
    /\ Alice \in users
    /\ \E tok \in issued :
          out.hdr = Bearer(tok) /\ tok.iat > 0 /\ now = tok.iat + ExpiresIn
    /\ \E tok \in issued : now < tok.iat + ExpiresIn

(***************************************************************************)
(* Concurrent PATCH requests on one task                                   *)
(***************************************************************************)
TaskFields == {"title", "date", "isChecked"}

\* the updates of the history, by position, whose body holds the field
Writers(field) == {i \in 1..Len(applied) : IsSome(applied[i].body[field])}

Latest(S) == CHOOSE i \in S : \A j \in S : j <= i

\* C11: when PATCH requests of the owner on the same task interleave their
\* find and update steps in any order, every one succeeds, each update is
\* applied as one write (to the row stored just before it, which the
\* previous write left, giving the row it returns), and the stored task is
\* the task returned by the request whose update was applied last: each
\* field holds the value of the latest applied update whose body held that
\* field, and a field no request held keeps its value from before the race.
C11_LastWriteWins ==
    /\ out.op = "patch" => out.error = "" /\ out.status = 200
    /\ \A i \in 1..Len(applied) :
          /\ applied[i].reply.error = "" /\ applied[i].reply.status = 200
          /\ applied[i].before =
                IF i = 1 THEN {RaceTask} ELSE {applied[i - 1].reply.task}
          /\ applied[i].reply.task =
                Patched(CHOOSE t \in applied[i].before : TRUE, applied[i].body)
    /\ applied # <<>> =>
          LET final == applied[Len(applied)].reply.task IN
          /\ FindTask(RaceTask.id) = {final}
          /\ final.id = RaceTask.id /\ final.userId = RaceTask.userId
          /\ \A field \in TaskFields :
                final[field] = IF Writers(field) = {} THEN RaceTask[field]
                               ELSE Val(applied[Latest(Writers(field))].body[field])
          /\ tasks = {final, BystanderTask}

\* two requests had both read the task before either wrote; the first write
\* set the title and isChecked, the second (made on a stale read) set
\* another title only: the stored task has the second's title, the first's
\* isChecked and the date from before the race
C11_Witness ==
    /\ Len(applied) = 2
    /\ \A r \in Reqs : flight[r].pc = "idle"
    /\ applied[1].slot # applied[2].slot
    /\ applied[1].read = RaceTask /\ applied[2].read = RaceTask
    /\ applied[1].body = [title |-> Some(<<"a">>), date |-> None, isChecked |-> Some(TRUE)]
    /\ applied[2].body = [title |-> Some(<<"b">>), date |-> None, isChecked |-> None]
    /\ out = applied[2].reply
    /\ out.task \in tasks
    /\ out.task.title = <<"b">> /\ out.task.isChecked /\ out.task.date = "d1"

====
